---------------------------- MODULE Spec2Model ----------------------------
(***************************************************************************)
(* Model of huasuan.py: the rent-versus-buy cost projection.               *)
(*                                                                         *)
(* Numbers.  The program computes with Python floats (IEEE-754 binary64)   *)
(* and truncates them with int().  The model computes the same             *)
(* expressions in the same order over binary64 values: a float is a sign,  *)
(* a 53-bit significand and an exponent, and every float operation is the  *)
(* exact result rounded to nearest, ties to even.  The exponent range is   *)
(* not bounded (no overflow, no subnormals: the amounts of the program are *)
(* far from both), -0.0 is not told from 0.0, and x ** n is taken to be    *)
(* correctly rounded.                                                      *)
(*                                                                         *)
(* The properties are stated over exact rationals, into which every float  *)
(* converts without loss.                                                  *)
(***************************************************************************)
EXTENDS Integers, Sequences, FiniteSets, TLC

(***************************************************************************)
(* Arbitrary-size naturals: little-endian sequences of limbs in            *)
(* 0 .. Base-1 without a most-significant zero limb; << >> is zero.        *)
(***************************************************************************)
LimbBits == 3 * 5

Base == 2 ^ LimbBits

One == <<1>>

RECURSIVE BTrim(_)
BTrim(a) ==
    IF a = << >> THEN a
    ELSE IF a[Len(a)] = 0 THEN BTrim(SubSeq(a, 1, Len(a) - 1)) ELSE a

RECURSIVE BFromNat(_)
BFromNat(k) ==
    IF k = 0 THEN << >> ELSE <<k % Base>> \o BFromNat(k \div Base)

RECURSIVE BToNat(_)
BToNat(a) ==
    IF a = << >> THEN 0 ELSE a[1] + Base * BToNat(Tail(a))

RECURSIVE BCmpFrom(_, _, _)
BCmpFrom(a, b, i) ==
    IF i = 0 THEN 0
    ELSE IF a[i] < b[i] THEN -1
    ELSE IF a[i] > b[i] THEN 1
    ELSE BCmpFrom(a, b, i - 1)

\* -1, 0 or 1 as a < b, a = b or a > b
BCmp(a, b) ==
    IF Len(a) < Len(b) THEN -1
    ELSE IF Len(a) > Len(b) THEN 1
    ELSE BCmpFrom(a, b, Len(a))

RECURSIVE BAddC(_, _, _)
BAddC(a, b, c) ==
    IF a = << >> /\ b = << >> THEN (IF c = 0 THEN << >> ELSE <<c>>)
    ELSE LET x == (IF a = << >> THEN 0 ELSE a[1])
                  + (IF b = << >> THEN 0 ELSE b[1]) + c
         IN  <<x % Base>> \o BAddC(IF a = << >> THEN a ELSE Tail(a),
                                   IF b = << >> THEN b ELSE Tail(b),
                                   x \div Base)

BAdd(a, b) == BAddC(a, b, 0)

\* a - b for a >= b, limb by limb with a borrow c
RECURSIVE BSubC(_, _, _)
BSubC(a, b, c) ==
    IF a = << >> THEN << >>
    ELSE LET x == a[1] - (IF b = << >> THEN 0 ELSE b[1]) - c
         IN  <<IF x < 0 THEN x + Base ELSE x>>
             \o BSubC(Tail(a), IF b = << >> THEN b ELSE Tail(b),
                      IF x < 0 THEN 1 ELSE 0)

BSub(a, b) == BTrim(BSubC(a, b, 0))

\* a * k + c for one limb k
RECURSIVE BMulSmallC(_, _, _)
BMulSmallC(a, k, c) ==
    IF a = << >> THEN (IF c = 0 THEN << >> ELSE <<c>>)
    ELSE LET x == a[1] * k + c
         IN  <<x % Base>> \o BMulSmallC(Tail(a), k, x \div Base)

BMulSmall(a, k) == IF k = 0 THEN << >> ELSE BMulSmallC(a, k, 0)

RECURSIVE BMul(_, _)
BMul(a, b) ==
    IF a = << >> \/ b = << >> THEN << >>
    ELSE LET rest == BMul(a, Tail(b))
         IN  BAdd(BMulSmall(a, b[1]),
                  IF rest = << >> THEN rest ELSE <<0>> \o rest)

RECURSIVE BPow(_, _)
BPow(a, k) == IF k = 0 THEN One ELSE BMul(a, BPow(a, k - 1))

\* the largest limb q in lo .. hi with q * b <= r  (lo * b <= r is given)
RECURSIVE BDigit(_, _, _, _)
BDigit(r, b, lo, hi) ==
    IF lo >= hi THEN lo
    ELSE LET mid == (lo + hi + 1) \div 2
         IN  IF BCmp(BMulSmall(b, mid), r) <= 0
             THEN BDigit(r, b, mid, hi)
             ELSE BDigit(r, b, lo, mid - 1)

\* the next limb of a quotient: the largest q with q * b <= r, for
\* b <= r < Base * b; the leading limbs of r and b bracket it
BQuotLimb(r, b) ==
    LET top == BToNat(SubSeq(r, Len(b), Len(r)))
        bt  == b[Len(b)]
        hi  == top \div bt
        lo  == top \div (bt + 1)
    IN  IF Len(b) = 1 THEN hi
        ELSE BDigit(r, b, IF lo < 1 THEN 1 ELSE lo,
                    IF hi > Base - 1 THEN Base - 1 ELSE hi)

\* long division of a by b # 0, from limb i of a downwards
RECURSIVE BDivFrom(_, _, _, _, _)
BDivFrom(a, b, i, q, r) ==
    IF i = 0 THEN [q |-> BTrim(q), r |-> r]
    ELSE LET r1 == BTrim(<<a[i]>> \o r)
             d  == IF BCmp(r1, b) < 0 THEN 0 ELSE BQuotLimb(r1, b)
         IN  BDivFrom(a, b, i - 1, <<d>> \o q,
                      IF d = 0 THEN r1 ELSE BSub(r1, BMulSmall(b, d)))

\* the quotient q and the remainder r of a by b # 0
BDivMod(a, b) == BDivFrom(a, b, Len(a), << >>, << >>)

RECURSIVE BGcd(_, _)
BGcd(a, b) == IF b = << >> THEN a ELSE BGcd(b, BDivMod(a, b).r)

\* a / g for a divisor g of a
BQuot(a, g) == IF g = One THEN a ELSE BDivMod(a, g).q

RECURSIVE Bits(_)
Bits(v) == IF v = 0 THEN 0 ELSE 1 + Bits(v \div 2)

\* the number of bits of a
BitLen(a) ==
    IF a = << >> THEN 0 ELSE LimbBits * (Len(a) - 1) + Bits(a[Len(a)])

\* 2 ^ k
Pow2(k) == [i \in 1 .. (k \div LimbBits) |-> 0] \o <<2 ^ (k % LimbBits)>>

\* (-1)^xneg * a + (-1)^yneg * b, as a sign and a magnitude
SignedSum(xneg, a, yneg, b) ==
    IF xneg = yneg THEN [neg |-> xneg, n |-> BAdd(a, b)]
    ELSE IF BCmp(a, b) >= 0 THEN [neg |-> xneg, n |-> BSub(a, b)]
    ELSE [neg |-> yneg, n |-> BSub(b, a)]

(***************************************************************************)
(* Python floats.  A float is [neg, m, e], standing for (-1)^neg * m * 2^e *)
(* with m of exactly MantissaBits bits; zero is [FALSE, << >>, 0].         *)
(***************************************************************************)
\* binary64: 52 stored bits and the hidden one
MantissaBits == 52 + 1

FZero == [neg |-> FALSE, m |-> << >>, e |-> 0]

\* m + 1 after a rounding up: 2 ^ MantissaBits becomes 2 ^ (MantissaBits-1)
RoundCarry(neg, m, e) ==
    IF BitLen(m) > MantissaBits
    THEN [neg |-> neg, m |-> Pow2(MantissaBits - 1), e |-> e + 1]
    ELSE [neg |-> neg, m |-> m, e |-> e]

\* to nearest, ties to even: qr is the significand cut and what was cut off
RoundCut(neg, qr, half, e) ==
    IF BCmp(qr.r, half) > 0 \/ (qr.r = half /\ qr.q[1] % 2 = 1)
    THEN RoundCarry(neg, BAdd(qr.q, One), e)
    ELSE [neg |-> neg, m |-> qr.q, e |-> e]

RoundBits(neg, m, e, bits) ==
    IF bits <= MantissaBits
    THEN [neg |-> neg, m |-> BMul(m, Pow2(MantissaBits - bits)),
          e |-> e - (MantissaBits - bits)]
    ELSE RoundCut(neg, BDivMod(m, Pow2(bits - MantissaBits)),
                  Pow2(bits - MantissaBits - 1), e + (bits - MantissaBits))

\* the float nearest to (-1)^neg * m * 2^e, for a natural m of any size
Round(neg, m, e) ==
    IF m = << >> THEN FZero ELSE RoundBits(neg, m, e, BitLen(m))

\* the float of a Python int
float(k) == Round(k < 0, BFromNat(IF k < 0 THEN -k ELSE k), 0)

FOne == float(1)

FIsZero(x) == x.m = << >>

FAddAt(x, y, e) ==
    LET t == SignedSum(x.neg, BMul(x.m, Pow2(x.e - e)),
                       y.neg, BMul(y.m, Pow2(y.e - e)))
    IN  Round(t.neg, t.n, e)

\* x + y
FAdd(x, y) ==
    IF FIsZero(x) THEN y
    ELSE IF FIsZero(y) THEN x
    ELSE FAddAt(x, y, IF x.e < y.e THEN x.e ELSE y.e)

FNeg(x) == IF FIsZero(x) THEN x ELSE [x EXCEPT !.neg = ~x.neg]

\* x - y
FSub(x, y) == FAdd(x, FNeg(y))

\* x * y
FMul(x, y) == Round(x.neg # y.neg, BMul(x.m, y.m), x.e + y.e)

\* the quotient with three guard bits and a sticky bit, rounded
FDivCut(neg, qr, e) ==
    Round(neg, BAdd(BMulSmall(qr.q, 2), IF qr.r = << >> THEN << >> ELSE One), e)

\* x / y for y # 0
FDiv(x, y) ==
    IF FIsZero(x) THEN FZero
    ELSE FDivCut(x.neg # y.neg,
                 BDivMod(BMul(x.m, Pow2(MantissaBits + 3)), y.m),
                 x.e - y.e - (MantissaBits + 4))

\* x ** k for an int k >= 0
FPow(x, k) == Round(x.neg /\ k % 2 = 1, BPow(x.m, k), x.e * k)

\* x < y
FLess(x, y) ==
    LET d == FSub(x, y) IN d.neg /\ ~FIsZero(d)

\* Python's min(a, b): b when b < a, else a
min(a, b) == IF FLess(b, a) THEN b ELSE a

\* Python's int(x) on a float: truncation toward zero
IntOfBits(neg, m) == IF neg THEN -BToNat(m) ELSE BToNat(m)

int(x) ==
    IF FIsZero(x) THEN 0
    ELSE IF x.e >= 0 THEN IntOfBits(x.neg, BMul(x.m, Pow2(x.e)))
    ELSE IF -x.e >= MantissaBits THEN 0
    ELSE IntOfBits(x.neg, BDivMod(x.m, Pow2(-x.e)).q)

\* the float a decimal literal a/b denotes, for ints a and b > 0
Literal(a, b) == FDiv(float(a), float(b))

(***************************************************************************)
(* Exact rationals, for stating the properties: [neg, n, d] with n/d in    *)
(* lowest terms, d > 0, and zero written +0/1.                             *)
(***************************************************************************)
QZero == [neg |-> FALSE, n |-> << >>, d |-> One]

QReduce(neg, n, d, g) == [neg |-> neg, n |-> BQuot(n, g), d |-> BQuot(d, g)]

QMake(neg, n, d) ==
    IF n = << >> THEN QZero ELSE QReduce(neg, n, d, BGcd(n, d))

\* the rational a / b for integers a and b > 0
Q(a, b) == QMake(a < 0, BFromNat(IF a < 0 THEN -a ELSE a), BFromNat(b))

\* the rational a float is
QOf(x) ==
    IF FIsZero(x) THEN QZero
    ELSE IF x.e >= 0 THEN [neg |-> x.neg, n |-> BMul(x.m, Pow2(x.e)), d |-> One]
    ELSE QMake(x.neg, x.m, Pow2(-x.e))

QIsZero(x) == x.n = << >>

QNeg(x) == IF QIsZero(x) THEN x ELSE [x EXCEPT !.neg = ~x.neg]

QAbs(x) == [x EXCEPT !.neg = FALSE]

QAddOver(x, y, t, d) == QMake(t.neg, t.n, d)

QAdd(x, y) ==
    QAddOver(x, y, SignedSum(x.neg, BMul(x.n, y.d), y.neg, BMul(y.n, x.d)),
             BMul(x.d, y.d))

QSub(x, y) == QAdd(x, QNeg(y))

QMul(x, y) == QMake(x.neg # y.neg, BMul(x.n, y.n), BMul(x.d, y.d))

\* x / y for y # 0
QDiv(x, y) == QMake(x.neg # y.neg, BMul(x.n, y.d), BMul(x.d, y.n))

QPow(x, k) ==
    [neg |-> x.neg /\ k % 2 = 1, n |-> BPow(x.n, k), d |-> BPow(x.d, k)]

\* x < y and x <= y
QLess(x, y) == LET d == QSub(x, y) IN d.neg

QLeq(x, y) == ~QLess(y, x)

QIsInteger(x) == x.d = One

\* the integer part of x, toward zero
Trunc(x) == IntOfBits(x.neg, BDivMod(x.n, x.d).q)

(***************************************************************************)
(* The program's state.  The module-level parameters are fixed for a run   *)
(* of the process; the four lists are the module-level tables; the rest    *)
(* are the locals of the function the control is in.                       *)
(***************************************************************************)
VARIABLES
    LIVING_MONTH, INFLATION_RATE, INITIAL_MONTHLY_RENT, TOTAL_HOUSE_PRICE,
    ANNUAL_INTEREST_RATE, MORGAGE_TERMS, DOWNPAYMENT_PCT, MONTHLY_HOA,
    MONTHLY_INSURANCE, ANNUAL_PROPERTY_TAX_RATE,
    costOfMonth, principleOfMonth, interestOfMonth, propertyTaxOfMonth,
    pc,               \* the function the control is in
    month,            \* the loop variable of that function
    rent,             \* initCostOfRental
    morgage,          \* initCostOfBank: the remaining balance
    monthlyPayment,   \* initCostOfBank
    incRate,          \* initPropertyTax
    total,            \* initPropertyTax: the assessed value
    cost,             \* getTotalRentalCost
    totalOfMonth,     \* getTotalHousingCost: the month's "total"
    pureCost,         \* getTotalHousingCost
    totalCost,        \* getTotalHousingCost
    runs,             \* calls of main() that have returned
    report            \* what each call of main() ended with

params ==
    <<LIVING_MONTH, INFLATION_RATE, INITIAL_MONTHLY_RENT, TOTAL_HOUSE_PRICE,
      ANNUAL_INTEREST_RATE, MORGAGE_TERMS, DOWNPAYMENT_PCT, MONTHLY_HOA,
      MONTHLY_INSURANCE, ANNUAL_PROPERTY_TAX_RATE>>

series == <<costOfMonth, principleOfMonth, interestOfMonth, propertyTaxOfMonth>>

locals ==
    <<rent, morgage, monthlyPayment, incRate, total, cost, totalOfMonth,
      pureCost, totalCost>>

vars == <<params, series, pc, month, locals, runs, report>>

(***************************************************************************)
(* Bounds of the model, and the parameter values it draws from.            *)
(***************************************************************************)
MaxTerm == 3

MaxLoanTerm == 3

MaxRuns == 2

DEFAULT_MONTHLY_RENT == 3300

DEFAULT_HOUSE_PRICE == 900000

DEFAULT_HOA == 500

DEFAULT_INSURANCE == 60

\* ANNUAL_INTEREST_RATE: 0, the program's 0.035, and 0.75
InterestRates == {float(0), Literal(35, 1000), Literal(75, 100)}

\* INFLATION_RATE: the program's 0.025 (above the 2% cap) and 0.012 (below)
InflationRates == {Literal(25, 1000), Literal(12, 1000)}

\* rent, house price, downpayment, HOA, insurance, property tax rate:
\* the program's own values, and a second household with a fractional rent
Households ==
    { [rent |-> float(DEFAULT_MONTHLY_RENT), price |-> float(DEFAULT_HOUSE_PRICE),
       down |-> Literal(2, 10), hoa |-> float(DEFAULT_HOA),
       insurance |-> float(DEFAULT_INSURANCE), tax |-> Literal(73, 10000)],
      [rent |-> Literal(10505, 10), price |-> float(480000),
       down |-> Literal(5, 10), hoa |-> Literal(2505, 10),
       insurance |-> float(45), tax |-> Literal(12, 100)] }

Init ==
    /\ LIVING_MONTH \in 1 .. MaxTerm
    /\ MORGAGE_TERMS \in 1 .. MaxLoanTerm
    /\ ANNUAL_INTEREST_RATE \in InterestRates
    /\ INFLATION_RATE \in InflationRates
    /\ \E h \in Households :
          /\ INITIAL_MONTHLY_RENT = h.rent
          /\ TOTAL_HOUSE_PRICE = h.price
          /\ DOWNPAYMENT_PCT = h.down
          /\ MONTHLY_HOA = h.hoa
          /\ MONTHLY_INSURANCE = h.insurance
          /\ ANNUAL_PROPERTY_TAX_RATE = h.tax
    /\ costOfMonth = << >>
    /\ principleOfMonth = << >>
    /\ interestOfMonth = << >>
    /\ propertyTaxOfMonth = << >>
    /\ pc = "main"
    /\ month = 0
    /\ rent = FZero
    /\ morgage = FZero
    /\ monthlyPayment = FZero
    /\ incRate = FZero
    /\ total = FZero
    /\ cost = 0
    /\ totalOfMonth = FZero
    /\ pureCost = FZero
    /\ totalCost = FZero
    /\ runs = 0
    /\ report = << >>

(***************************************************************************)
(* getMonthlyPaymentToBank: the annuity formula.  The float division       *)
(* raises ZeroDivisionError when the divisor (1 + r) ** n - 1 is zero.     *)
(***************************************************************************)
ZeroDivisionError == [raised |-> TRUE, value |-> FZero]

getMonthlyPaymentToBank(price, downpaymentPct, loanTermInMonth, AnnualInterestRate) ==
    LET m == FMul(price, FSub(FOne, downpaymentPct))
        r == FDiv(AnnualInterestRate, float(12))
        num == FMul(m, FMul(r, FPow(FAdd(FOne, r), loanTermInMonth)))
        den == FSub(FPow(FAdd(FOne, r), loanTermInMonth), FOne)
    IN  IF FIsZero(den) THEN ZeroDivisionError
        ELSE [raised |-> FALSE, value |-> FDiv(num, den)]

getRentalCostByMonth(m) == costOfMonth[m + 1]

getInterestCostByMonth(m) == interestOfMonth[m + 1]

getPrincipleCostByMonth(m) == principleOfMonth[m + 1]

getPropertyTaxByMonth(m) == propertyTaxOfMonth[m + 1]

getHOAByMonth(m) ==
    FMul(MONTHLY_HOA, FPow(FAdd(FOne, FDiv(INFLATION_RATE, float(12))), m))

getInsuranceByMonth(m) ==
    FMul(MONTHLY_INSURANCE, FPow(FAdd(FOne, FDiv(INFLATION_RATE, float(12))), m))

(***************************************************************************)
(* main() calls init(), which enters initCostOfRental.                     *)
(***************************************************************************)
Main ==
    /\ pc = "main"
    /\ runs < MaxRuns
    /\ rent' = INITIAL_MONTHLY_RENT
    /\ month' = 0
    /\ pc' = "initCostOfRental"
    /\ UNCHANGED <<params, series, morgage, monthlyPayment, incRate, total,
                   cost, totalOfMonth, pureCost, totalCost, runs, report>>

\* RentalStep with the recorded, truncated rent carried into the next month
RentalStepCarryTruncated ==
    /\ pc = "initCostOfRental"
    /\ month < LIVING_MONTH
    /\ costOfMonth' = Append(costOfMonth, int(rent))
    /\ rent' = FMul(float(int(rent)),
                    FAdd(FOne, FDiv(INFLATION_RATE, float(12))))
    /\ month' = month + 1
    /\ UNCHANGED <<params, principleOfMonth, interestOfMonth,
                   propertyTaxOfMonth, pc, morgage, monthlyPayment, incRate,
                   total, cost, totalOfMonth, pureCost, totalCost, runs,
                   report>>

\* one iteration of the loop of initCostOfRental
RentalStep ==
    /\ pc = "initCostOfRental"
    /\ month < LIVING_MONTH
    /\ costOfMonth' = Append(costOfMonth, int(rent))
    /\ rent' = FMul(rent, FAdd(FOne, FDiv(INFLATION_RATE, float(12))))
    /\ month' = month + 1
    /\ UNCHANGED <<params, principleOfMonth, interestOfMonth,
                   propertyTaxOfMonth, pc, morgage, monthlyPayment, incRate,
                   total, cost, totalOfMonth, pureCost, totalCost, runs,
                   report>>

\* BankEnter with the loop of initCostOfBank started at month 1
BankEnterFromOne ==
    /\ pc = "initCostOfRental"
    /\ month = LIVING_MONTH
    /\ LET p == getMonthlyPaymentToBank(TOTAL_HOUSE_PRICE, DOWNPAYMENT_PCT,
                                        MORGAGE_TERMS, ANNUAL_INTEREST_RATE)
       IN  /\ morgage' = FMul(TOTAL_HOUSE_PRICE, FSub(FOne, DOWNPAYMENT_PCT))
           /\ IF p.raised
              THEN /\ pc' = "ZeroDivisionError"
                   /\ UNCHANGED <<monthlyPayment, month>>
              ELSE /\ pc' = "initCostOfBank"
                   /\ monthlyPayment' = p.value
                   /\ month' = 1
    /\ UNCHANGED <<params, series, rent, incRate, total, cost, totalOfMonth,
                   pureCost, totalCost, runs, report>>

\* initCostOfRental returns; initCostOfBank computes the balance and the
\* monthly payment, or the exception ends the process
BankEnter ==
    /\ pc = "initCostOfRental"
    /\ month = LIVING_MONTH
    /\ LET p == getMonthlyPaymentToBank(TOTAL_HOUSE_PRICE, DOWNPAYMENT_PCT,
                                        MORGAGE_TERMS, ANNUAL_INTEREST_RATE)
       IN  /\ morgage' = FMul(TOTAL_HOUSE_PRICE, FSub(FOne, DOWNPAYMENT_PCT))
           /\ IF p.raised
              THEN /\ pc' = "ZeroDivisionError"
                   /\ UNCHANGED <<monthlyPayment, month>>
              ELSE /\ pc' = "initCostOfBank"
                   /\ monthlyPayment' = p.value
                   /\ month' = 0
    /\ UNCHANGED <<params, series, rent, incRate, total, cost, totalOfMonth,
                   pureCost, totalCost, runs, report>>

\* BankStep with the whole payment taken as principal
BankStepNoInterest ==
    /\ pc = "initCostOfBank"
    /\ month < LIVING_MONTH
    /\ LET interestOfTheMonth ==
               FDiv(FMul(morgage, ANNUAL_INTEREST_RATE), float(12))
           principleOfTheMonth == monthlyPayment
       IN  /\ morgage' = FSub(morgage, principleOfTheMonth)
           /\ interestOfMonth' = Append(interestOfMonth, int(interestOfTheMonth))
           /\ principleOfMonth' = Append(principleOfMonth, int(principleOfTheMonth))
    /\ month' = month + 1
    /\ UNCHANGED <<params, costOfMonth, propertyTaxOfMonth, pc, rent,
                   monthlyPayment, incRate, total, cost, totalOfMonth,
                   pureCost, totalCost, runs, report>>

\* one iteration of the loop of initCostOfBank
BankStep ==
    /\ pc = "initCostOfBank"
    /\ month < LIVING_MONTH
    /\ LET interestOfTheMonth ==
               FDiv(FMul(morgage, ANNUAL_INTEREST_RATE), float(12))
           principleOfTheMonth == FSub(monthlyPayment, interestOfTheMonth)
       IN  /\ morgage' = FSub(morgage, principleOfTheMonth)
           /\ interestOfMonth' = Append(interestOfMonth, int(interestOfTheMonth))
           /\ principleOfMonth' = Append(principleOfMonth, int(principleOfTheMonth))
    /\ month' = month + 1
    /\ UNCHANGED <<params, costOfMonth, propertyTaxOfMonth, pc, rent,
                   monthlyPayment, incRate, total, cost, totalOfMonth,
                   pureCost, totalCost, runs, report>>

\* Proposition 13: the assessed value rises by at most 2% a year
assessedValueIncRate == Literal(2, 100)

\* TaxEnter without the cap: the assessed value follows inflation
TaxEnterNoCap ==
    /\ pc = "initCostOfBank"
    /\ month = LIVING_MONTH
    /\ incRate' = INFLATION_RATE
    /\ total' = TOTAL_HOUSE_PRICE
    /\ month' = 0
    /\ pc' = "initPropertyTax"
    /\ UNCHANGED <<params, series, rent, morgage, monthlyPayment, cost,
                   totalOfMonth, pureCost, totalCost, runs, report>>

\* initCostOfBank returns; initPropertyTax fixes the rate of increase
TaxEnter ==
    /\ pc = "initCostOfBank"
    /\ month = LIVING_MONTH
    /\ incRate' = min(assessedValueIncRate, INFLATION_RATE)
    /\ total' = TOTAL_HOUSE_PRICE
    /\ month' = 0
    /\ pc' = "initPropertyTax"
    /\ UNCHANGED <<params, series, rent, morgage, monthlyPayment, cost,
                   totalOfMonth, pureCost, totalCost, runs, report>>

\* one iteration of the loop of initPropertyTax
TaxStep ==
    /\ pc = "initPropertyTax"
    /\ month < LIVING_MONTH
    /\ LET tax == FDiv(FMul(total, ANNUAL_PROPERTY_TAX_RATE), float(12))
       IN  propertyTaxOfMonth' = Append(propertyTaxOfMonth, int(tax))
    /\ total' = FMul(total, FAdd(FOne, FDiv(incRate, float(12))))
    /\ month' = month + 1
    /\ UNCHANGED <<params, costOfMonth, principleOfMonth, interestOfMonth,
                   pc, rent, morgage, monthlyPayment, incRate, cost,
                   totalOfMonth, pureCost, totalCost, runs, report>>

\* init() returns to main(), which calls getTotalRentalCost(LIVING_MONTH)
RentalCostEnter ==
    /\ pc = "initPropertyTax"
    /\ month = LIVING_MONTH
    /\ cost' = 0
    /\ month' = 0
    /\ pc' = "getTotalRentalCost"
    /\ UNCHANGED <<params, series, rent, morgage, monthlyPayment, incRate,
                   total, totalOfMonth, pureCost, totalCost, runs, report>>

\* RentalCostStep with the getter taking the entry off the table
RentalCostStepPop ==
    /\ pc = "getTotalRentalCost"
    /\ month < LIVING_MONTH
    /\ cost' = cost + Head(costOfMonth)
    /\ costOfMonth' = Tail(costOfMonth)
    /\ month' = month + 1
    /\ UNCHANGED <<params, principleOfMonth, interestOfMonth,
                   propertyTaxOfMonth, pc, rent, morgage, monthlyPayment,
                   incRate, total, totalOfMonth, pureCost, totalCost, runs,
                   report>>

\* one iteration of the loop of getTotalRentalCost
RentalCostStep ==
    /\ pc = "getTotalRentalCost"
    /\ month < LIVING_MONTH
    /\ cost' = cost + getRentalCostByMonth(month)
    /\ month' = month + 1
    /\ UNCHANGED <<params, series, pc, rent, morgage, monthlyPayment,
                   incRate, total, totalOfMonth, pureCost, totalCost, runs,
                   report>>

\* getTotalRentalCost returns; main() calls getTotalHousingCost(LIVING_MONTH)
HousingCostEnter ==
    /\ pc = "getTotalRentalCost"
    /\ month = LIVING_MONTH
    /\ pureCost' = FZero
    /\ totalCost' = FZero
    /\ month' = 0
    /\ pc' = "getTotalHousingCost"
    /\ UNCHANGED <<params, series, rent, morgage, monthlyPayment, incRate,
                   total, cost, totalOfMonth, runs, report>>

\* HousingCostStep with the principal left in the pure cost
HousingCostStepKeepPrinciple ==
    /\ pc = "getTotalHousingCost"
    /\ month < LIVING_MONTH
    /\ LET interest == getInterestCostByMonth(month)
           principle == getPrincipleCostByMonth(month)
           tax == getPropertyTaxByMonth(month)
           hoa == getHOAByMonth(month)
           insurance == getInsuranceByMonth(month)
           t == FAdd(FAdd(float(interest + principle + tax), hoa), insurance)
       IN  /\ totalOfMonth' = t
           /\ pureCost' = FAdd(pureCost, t)
           /\ totalCost' = FAdd(totalCost, t)
    /\ month' = month + 1
    /\ UNCHANGED <<params, series, pc, rent, morgage, monthlyPayment,
                   incRate, total, cost, runs, report>>

\* one iteration of the loop of getTotalHousingCost
HousingCostStep ==
    /\ pc = "getTotalHousingCost"
    /\ month < LIVING_MONTH
    /\ LET interest == getInterestCostByMonth(month)
           principle == getPrincipleCostByMonth(month)
           tax == getPropertyTaxByMonth(month)
           hoa == getHOAByMonth(month)
           insurance == getInsuranceByMonth(month)
           t == FAdd(FAdd(float(interest + principle + tax), hoa), insurance)
       IN  /\ totalOfMonth' = t
           /\ pureCost' = FAdd(pureCost, FSub(t, float(principle)))
           /\ totalCost' = FAdd(totalCost, t)
    /\ month' = month + 1
    /\ UNCHANGED <<params, series, pc, rent, morgage, monthlyPayment,
                   incRate, total, cost, runs, report>>

\* getTotalHousingCost returns; main() prints the summary and returns
MainReturn ==
    /\ pc = "getTotalHousingCost"
    /\ month = LIVING_MONTH
    /\ report' = Append(report,
           [costOfMonth |-> costOfMonth,
            interestOfMonth |-> interestOfMonth,
            principleOfMonth |-> principleOfMonth,
            propertyTaxOfMonth |-> propertyTaxOfMonth,
            totalRentalCost |-> cost,
            totalBuyingCost |-> FAdd(totalCost,
                                     FMul(TOTAL_HOUSE_PRICE, DOWNPAYMENT_PCT)),
            totalHousingCost |-> totalCost,
            pureHousingCost |-> pureCost])
    /\ runs' = runs + 1
    /\ pc' = "main"
    /\ UNCHANGED <<params, series, month, locals>>

Next ==
    \/ Main
    \/ RentalStep
    \/ BankEnter
    \/ BankStep
    \/ TaxEnter
    \/ TaxStep
    \/ RentalCostEnter
    \/ RentalCostStep
    \/ HousingCostEnter
    \/ HousingCostStep
    \/ MainReturn

Spec == Init /\ [][Next]_vars


(***************************************************************************)
(* Vocabulary of the properties.                                           *)
(***************************************************************************)
\* s[1] + ... + s[k]
RECURSIVE SumTo(_, _)
SumTo(s, k) == IF k = 0 THEN 0 ELSE SumTo(s, k - 1) + s[k]

\* the integer k as a rational
QInt(k) == Q(k, 1)

\* the month (0-based, within its run) of entry i of a series
MonthOf(i) == (i - 1) % LIVING_MONTH

\* 1 + rate / 12 as a rational, for a float rate
MonthlyFactor(rate) == QAdd(QInt(1), QDiv(QOf(rate), QInt(12)))

\* main() has returned from init() of its first call
InitPassDone ==
    \/ runs = 0 /\ pc \in {"getTotalRentalCost", "getTotalHousingCost"}
    \/ runs = 1 /\ pc = "main"

\* s is t, or t with entries appended
IsPrefix(s, t) == Len(s) <= Len(t) /\ SubSeq(t, 1, Len(s)) = s

(***************************************************************************)
(* C1.  Running the full calculation twice in one process yields the same  *)
(* series and the same totals: every call of main() ends with what the     *)
(* first call ended with.  The code appends the second run to the tables   *)
(* of the first, so this fails.                                            *)
(***************************************************************************)
C1_Idempotent == \A i \in DOMAIN report : report[i] = report[1]

(***************************************************************************)
(* C2.  Once the initialization pass has run, each of the four series has  *)
(* exactly LIVING_MONTH entries, whatever the loan term is.                *)
(***************************************************************************)
C2_SeriesLength ==
    InitPassDone =>
        /\ Len(costOfMonth) = LIVING_MONTH
        /\ Len(interestOfMonth) = LIVING_MONTH
        /\ Len(principleOfMonth) = LIVING_MONTH
        /\ Len(propertyTaxOfMonth) = LIVING_MONTH

\* the pass has run with a reporting term longer than the loan
C2_Witness ==
    /\ InitPassDone
    /\ LIVING_MONTH > MORGAGE_TERMS
    /\ Len(principleOfMonth) = LIVING_MONTH
    /\ Len(principleOfMonth) >= 2

(***************************************************************************)
(* C3.  With a zero annual interest rate no division error is raised, the  *)
(* monthly payment is principal0 / loanTermInMonth, and every recorded     *)
(* interest is 0.  The code divides by (1 + 0) ** n - 1 = 0, so this       *)
(* fails.                                                                  *)
(***************************************************************************)
C3_ZeroInterest ==
    FIsZero(ANNUAL_INTEREST_RATE) =>
        /\ pc # "ZeroDivisionError"
        /\ pc \in {"initCostOfBank", "initPropertyTax"} =>
               monthlyPayment =
                   FDiv(FMul(TOTAL_HOUSE_PRICE, FSub(FOne, DOWNPAYMENT_PCT)),
                        float(MORGAGE_TERMS))
        /\ \A i \in DOMAIN interestOfMonth : interestOfMonth[i] = 0

(***************************************************************************)
(* C4.  In getTotalHousingCost the HOA and the insurance are truncated     *)
(* before they enter the month's total, so the month's total, totalCost    *)
(* and pureCost are whole numbers.  The code adds the floats as they are,  *)
(* so this fails.                                                          *)
(***************************************************************************)
C4_IntegerTotals ==
    (pc = "getTotalHousingCost" /\ month > 0) =>
        /\ totalOfMonth =
               float(getInterestCostByMonth(month - 1)
                     + getPrincipleCostByMonth(month - 1)
                     + getPropertyTaxByMonth(month - 1)
                     + int(getHOAByMonth(month - 1))
                     + int(getInsuranceByMonth(month - 1)))
        /\ QIsInteger(QOf(totalOfMonth))
        /\ QIsInteger(QOf(totalCost))
        /\ QIsInteger(QOf(pureCost))

(***************************************************************************)
(* C5.  The totals are the sums of the months.                             *)
(***************************************************************************)
\* the month's total as getTotalHousingCost adds it up
MonthTotal(m) ==
    FAdd(FAdd(float(getInterestCostByMonth(m) + getPrincipleCostByMonth(m)
                    + getPropertyTaxByMonth(m)),
              getHOAByMonth(m)),
         getInsuranceByMonth(m))

\* the float sums of the first k months, added in month order
RECURSIVE SumOfTotals(_)
SumOfTotals(k) ==
    IF k = 0 THEN FZero ELSE FAdd(SumOfTotals(k - 1), MonthTotal(k - 1))

RECURSIVE SumOfPure(_)
SumOfPure(k) ==
    IF k = 0 THEN FZero
    ELSE FAdd(SumOfPure(k - 1),
              FSub(MonthTotal(k - 1), float(getPrincipleCostByMonth(k - 1))))

\* |totalCost - pureCost - paid| * 2^50 <= k * (totalCost + paid)
WithinRounding(k, paid) ==
    QLeq(QMul(QAbs(QSub(QSub(QOf(totalCost), QOf(pureCost)), QInt(paid))),
              [neg |-> FALSE, n |-> Pow2(50), d |-> One]),
         QMul(QInt(k), QAdd(QOf(totalCost), QInt(paid))))

PaymentReturned ==
    pc = "initCostOfBank" =>
        monthlyPayment =
            getMonthlyPaymentToBank(TOTAL_HOUSE_PRICE, DOWNPAYMENT_PCT,
                                    MORGAGE_TERMS, ANNUAL_INTEREST_RATE).value

\* |interestOfMonth[i] + principleOfMonth[i] - payment|
PaymentGap(payment, i) ==
    QAbs(QSub(QInt(interestOfMonth[i] + principleOfMonth[i]), payment))

GapsWithinOne(payment) ==
    \A i \in 1 .. Len(principleOfMonth) :
        QLeq(PaymentGap(payment, i), QInt(1))

GapsWithinTwo(payment) ==
    \A i \in 1 .. Len(principleOfMonth) :
        QLess(PaymentGap(payment, i), QInt(2))

\* C6 as the specification states it: the sum is within one truncation
\* unit of the payment.  Two truncations are made, so this fails.
C6_WithinOne == PaymentReturned /\ GapsWithinOne(QOf(monthlyPayment))

\* C6 as the code has it: the recorded interest and principal of a month
\* add up to the monthly payment within two truncation units, one for each
\* of the two values recorded.
C6_WithinTwo == PaymentReturned /\ GapsWithinTwo(QOf(monthlyPayment))

\* a month has been recorded whose sum is more than one unit off
C6_Witness ==
    \E i \in 1 .. Len(principleOfMonth) :
        QLess(QInt(1), PaymentGap(QOf(monthlyPayment), i))

(***************************************************************************)
(* C7.  Entry i of the rental series is the truncation of the running,     *)
(* untruncated rent INITIAL_MONTHLY_RENT * (1 + INFLATION_RATE / 12) ^ i,  *)
(* and the first entry is the floor of INITIAL_MONTHLY_RENT.               *)
(***************************************************************************)
\* x * y, not brought to lowest terms
QTimes(x, y) ==
    [neg |-> x.neg # y.neg, n |-> BMul(x.n, y.n), d |-> BMul(x.d, y.d)]

RentOfMonth(factor, m) == QTimes(QOf(INITIAL_MONTHLY_RENT), QPow(factor, m))

RentalEntry(factor, i) ==
    /\ costOfMonth[i] = Trunc(RentOfMonth(factor, MonthOf(i)))
    /\ MonthOf(i) = 0 =>
           /\ QLeq(QInt(costOfMonth[i]), QOf(INITIAL_MONTHLY_RENT))
           /\ QLess(QOf(INITIAL_MONTHLY_RENT), QInt(costOfMonth[i] + 1))

RentalSeries(factor) == \A i \in DOMAIN costOfMonth : RentalEntry(factor, i)

C7_RentalSeries == RentalSeries(MonthlyFactor(INFLATION_RATE))

\* three months are recorded, and the third is not what compounding the
\* recorded second entry would have given
C7_Witness ==
    /\ Len(costOfMonth) >= 3
    /\ LIVING_MONTH >= 3
    /\ costOfMonth[3] #
           Trunc(QMul(QInt(costOfMonth[2]), MonthlyFactor(INFLATION_RATE)))

(***************************************************************************)
(* C8.  The property-tax series does not decrease, and grows by at most    *)
(* min(0.02, INFLATION_RATE) / 12 a month.                                 *)
(***************************************************************************)
\* min(0.02, INFLATION_RATE) / 12
MonthlyCap == QDiv(QOf(min(assessedValueIncRate, INFLATION_RATE)), QInt(12))

\* entries i and i + 1 of the tax series are consecutive months of one run
SameRun(i) == i < Len(propertyTaxOfMonth) /\ MonthOf(i) + 1 < LIVING_MONTH

\* the minimum is fixed when initPropertyTax starts, for all of its loop
CapFixed ==
    pc = "initPropertyTax" =>
        incRate = min(assessedValueIncRate, INFLATION_RATE)

\* the entry after i exceeds entry i by at most the fraction cap of it
EntryGrowth(cap, i) ==
    /\ propertyTaxOfMonth[i] <= propertyTaxOfMonth[i + 1]
    /\ QLeq(QInt(propertyTaxOfMonth[i + 1] - propertyTaxOfMonth[i]),
            QMul(QInt(propertyTaxOfMonth[i]), cap))

\* the entry after i is below (entry i + 1) * (1 + cap): what was truncated
\* to it grew by at most the fraction cap
GrowthBeforeTruncation(cap, i) ==
    /\ propertyTaxOfMonth[i] <= propertyTaxOfMonth[i + 1]
    /\ QLess(QInt(propertyTaxOfMonth[i + 1]),
             QMul(QInt(propertyTaxOfMonth[i] + 1), QAdd(QInt(1), cap)))

TaxGrowthOfEntries(cap) ==
    \A i \in DOMAIN propertyTaxOfMonth : SameRun(i) => EntryGrowth(cap, i)

TaxGrowthBeforeTruncation(cap) ==
    \A i \in DOMAIN propertyTaxOfMonth :
        SameRun(i) => GrowthBeforeTruncation(cap, i)

PositiveInflation == ~INFLATION_RATE.neg /\ ~FIsZero(INFLATION_RATE)

\* C8 as the specification states it: with a positive inflation rate the
\* series does not decrease and an entry exceeds the one before by at most
\* the fraction min(0.02, INFLATION_RATE) / 12 of it, the minimum being
\* fixed for the run.  The entries are truncated, so one can exceed the
\* one before by a whole unit, which is more than that fraction.
C8_GrowthOfEntries ==
    CapFixed /\ (PositiveInflation => TaxGrowthOfEntries(MonthlyCap))

\* C8 as the code has it: with a positive inflation rate the series does
\* not decrease, and the growth is bounded before truncation: an entry is
\* below (the one before + 1) * (1 + min(0.02, INFLATION_RATE) / 12); the
\* minimum is fixed when initPropertyTax starts and holds through its loop.
C8_GrowthBeforeTruncation ==
    CapFixed /\ (PositiveInflation => TaxGrowthBeforeTruncation(MonthlyCap))

\* two consecutive months are recorded, inflation is above the cap, and
\* the second entry exceeds the first by more than the capped fraction
C8_Witness ==
    /\ FLess(assessedValueIncRate, INFLATION_RATE)
    /\ \E i \in DOMAIN propertyTaxOfMonth :
           SameRun(i) /\ ~EntryGrowth(MonthlyCap, i)

(***************************************************************************)
(* C9.  The remaining balance kept by initCostOfBank does not increase     *)
(* from month to month and is never negative after a month.  The code      *)
(* keeps subtracting once the loan is paid off, and rounding can leave a   *)
(* balance just below zero at the last payment, so this fails.             *)
(***************************************************************************)
C9_Balance ==
    [][(pc = "initCostOfBank" /\ pc' = "initCostOfBank") =>
           /\ ~FLess(morgage, morgage')
           /\ ~morgage'.neg]_vars

(***************************************************************************)
(* C10.  The series are build-once: a step never changes an entry that     *)
(* exists, a builder appends to its own series only, and no step of        *)
(* getTotalRentalCost or getTotalHousingCost changes a series.             *)
(***************************************************************************)
C10_BuildOnce ==
    [][/\ IsPrefix(costOfMonth, costOfMonth')
       /\ IsPrefix(interestOfMonth, interestOfMonth')
       /\ IsPrefix(principleOfMonth, principleOfMonth')
       /\ IsPrefix(propertyTaxOfMonth, propertyTaxOfMonth')
       /\ pc = "initCostOfRental" =>
              UNCHANGED <<interestOfMonth, principleOfMonth,
                          propertyTaxOfMonth>>
       /\ pc = "initCostOfBank" =>
              UNCHANGED <<costOfMonth, propertyTaxOfMonth>>
       /\ pc = "initPropertyTax" =>
              UNCHANGED <<costOfMonth, interestOfMonth, principleOfMonth>>
       /\ pc \in {"main", "getTotalRentalCost", "getTotalHousingCost"} =>
              UNCHANGED series]_vars

\* the series are built and both reporting functions have read all of them
C10_Witness ==
    /\ pc = "getTotalHousingCost"
    /\ month = LIVING_MONTH
    /\ Len(costOfMonth) >= 2
    /\ cost = SumTo(costOfMonth, month)

=============================================================================
